---- MODULE Spec2Model ----
(***************************************************************************)
(* Model of the i18n locale analyzer (analizer.ts).                        *)
(*                                                                         *)
(* Strings are sequences of one-character strings, so that the two string  *)
(* conversions of the program, key.split(".") and `${prefix}.${key}`, are  *)
(* real operations.  A JSON value is a record tagged by its JavaScript     *)
(* type: a string, null, an array (opaque to the program) or a plain       *)
(* object, whose field m maps property names to values.                    *)
(***************************************************************************)
EXTENDS Integers, Sequences, FiniteSets, TLC

VARIABLES
    dirExists,    \* findLocalesDirectory() finds one of the candidate paths
    disk,         \* disk[l]: the file <localesDir>/<l>.json, l in {"en","es"}
    sourceKeys,   \* the keys the source tree makes scanSourceFiles return
    results,      \* the AnalysisResult main() holds (Null before analysis)
    pc,           \* where the process is: main, menu, add_*, continue, done
    exitCode,     \* the status the process ends with once pc = "done"
    choice,       \* the last menu choice read by showMainMenu
    proceed,      \* the answer to the first confirmation of the last operation
    confirmDelete,\* the answer to the second confirmation of the last delete
    idx,          \* addMissingKeys: position in keysInCodeOnly
    translation,  \* addMissingKeys: the value for the key being processed
    before,       \* history: disk when the last menu operation began
    allBlank,     \* history: every prompt of the current add run got ""
    edits,        \* number of edits made to the files from outside
    tree,         \* (function checks) the object the helpers are applied to
    last          \* (function checks) the last helper call and its outcome

vars == <<dirExists, disk, sourceKeys, results, pc, exitCode, choice, proceed,
          confirmDelete, idx, translation, before, allBlank, edits, tree, last>>

progVars == <<dirExists, disk, sourceKeys, results, pc, exitCode, choice,
              proceed, confirmDelete, idx, translation, before, allBlank, edits>>

-----------------------------------------------------------------------------
(* JSON values *)

Str(s) == [t |-> "str", s |-> s]
Null == [t |-> "null"]
Arr == [t |-> "arr"]
Obj(m) == [t |-> "obj", m |-> m]

EmptyMap == [n \in {} |-> Null]
EmptyObj == Obj(EmptyMap)

\* obj[k] = v
Put(m, k, v) == [n \in DOMAIN m \cup {k} |-> IF n = k THEN v ELSE m[n]]
\* delete obj[k]
Del(m, k) == [n \in DOMAIN m \ {k} |-> m[n]]

\* typeof v === "object" && v !== null && !Array.isArray(v)
IsPlainObject(v) == v.t = "obj"

-----------------------------------------------------------------------------
(* Strings *)

Dot == "."

\* key.split(".")
RECURSIVE Split(_)
Split(s) ==
    IF \A i \in 1..Len(s) : s[i] # Dot
    THEN <<s>>
    ELSE LET i == CHOOSE i \in 1..Len(s) :
                      s[i] = Dot /\ \A j \in 1..(i - 1) : s[j] # Dot
         IN  <<SubSeq(s, 1, i - 1)>> \o Split(SubSeq(s, i + 1, Len(s)))

\* prefix ? `${prefix}.${key}` : key
FullKey(prefix, key) ==
    IF prefix # <<>> THEN prefix \o <<Dot>> \o key ELSE key

CharRank(c) ==
    CASE c = "." -> 0
      [] c = "a" -> 1
      [] c = "b" -> 2
      [] c = "c" -> 3
      [] OTHER   -> 4

\* a.localeCompare(b) < 0, for keys over the characters of CharRank
RECURSIVE KeyLess(_, _)
KeyLess(a, b) ==
    IF b = <<>> THEN FALSE
    ELSE IF a = <<>> THEN TRUE
    ELSE IF a[1] # b[1] THEN CharRank(a[1]) < CharRank(b[1])
    ELSE KeyLess(Tail(a), Tail(b))

-----------------------------------------------------------------------------
(* Key Extractor *)

RECURSIVE getKeys(_, _)
getKeys(obj, prefix) ==
    IF ~IsPlainObject(obj) THEN {}
    ELSE UNION { LET fullKey == FullKey(prefix, key)
                 IN  IF IsPlainObject(obj.m[key])
                     THEN getKeys(obj.m[key], fullKey)
                     ELSE {fullKey}
                 : key \in DOMAIN obj.m }

\* Mutant: an intermediate node is always replaced by a fresh object.
StepInto_AlwaysFresh(current, key) == EmptyObj

\* One step of the loop of setNestedKey: the node the walk continues in.
StepInto(current, key) ==
    IF key \in DOMAIN current.m /\ IsPlainObject(current.m[key])
    THEN current.m[key]
    ELSE EmptyObj

RECURSIVE setNestedKey(_, _, _)
setNestedKey(obj, keyPath, value) ==
    LET key == keyPath[1]
    IN  IF Len(keyPath) = 1
        THEN Obj(Put(obj.m, key, Str(value)))
        ELSE Obj(Put(obj.m, key,
                     setNestedKey(StepInto(obj, key), Tail(keyPath), value)))

\* Mutant: emptied parents are never cleaned up.
PruneParent_Never(removed, child) == FALSE

\* Mutant: an empty child is deleted even when nothing was removed below it.
PruneParent_IgnoringRemoved(removed, child) ==
    IsPlainObject(child) /\ DOMAIN child.m = {}

\* Object.keys(child).length === 0 after a removal below child
PruneParent(removed, child) == removed /\ DOMAIN child.m = {}

\* The result is the pair of the returned flag and the object as it is left.
RECURSIVE removeKey(_, _)
removeKey(obj, keyPath) ==
    IF ~IsPlainObject(obj)
    THEN [removed |-> FALSE, obj |-> obj]
    ELSE LET currentKey == keyPath[1]
         IN  IF Len(keyPath) = 1
             THEN IF currentKey \in DOMAIN obj.m
                  THEN [removed |-> TRUE, obj |-> Obj(Del(obj.m, currentKey))]
                  ELSE [removed |-> FALSE, obj |-> obj]
             ELSE IF /\ currentKey \in DOMAIN obj.m
                     /\ obj.m[currentKey].t \in {"obj", "null"}
                  THEN LET r == removeKey(obj.m[currentKey], Tail(keyPath))
                       IN  IF PruneParent(r.removed, r.obj)
                           THEN [removed |-> r.removed,
                                 obj |-> Obj(Del(obj.m, currentKey))]
                           ELSE [removed |-> r.removed,
                                 obj |-> Obj(Put(obj.m, currentKey, r.obj))]
                  ELSE [removed |-> FALSE, obj |-> obj]

-----------------------------------------------------------------------------
(* Locale Store *)

en_ == "en"
es_ == "es"

Locales == {en_, es_}

\* A file of the locales directory: missing, not parsable as JSON, or a
\* JSON document holding an object.
Absent == [k |-> "absent"]
Bad == [k |-> "bad"]
Json(v) == [k |-> "json", v |-> v]

\* Both failures of readFile/JSON.parse end in `return null`.
loadLocale(locale, d) ==
    IF d[locale].k = "json" THEN d[locale].v ELSE Null

\* fs.writeFile(path, JSON.stringify(data, null, 2)): the document read back
\* by JSON.parse is the value written (data holds JSON values only).
writeFile(locale, d, data) == [d EXCEPT ![locale] = Json(data)]

-----------------------------------------------------------------------------
(* Reconciliation Engine *)

RECURSIVE SortKeys(_)
SortKeys(S) ==
    IF S = {} THEN <<>>
    ELSE LET first == CHOOSE k \in S : \A o \in S \ {k} : KeyLess(k, o)
         IN  <<first>> \o SortKeys(S \ {first})

\* Mutant: inES is read from the default locale's keys.
KeyStatus_ESFromDefault(key, usedKeys, defaultLocaleKeys, otherLocaleKeys) ==
    [key   |-> key,
     inCode |-> key \in usedKeys,
     inEN  |-> key \in defaultLocaleKeys,
     inES  |-> key \in defaultLocaleKeys]

\* Mutant: a default locale that does not load is taken as empty.
NotLoaded_Tolerated(data) == FALSE

\* !defaultLocaleData
NotLoaded(data) == data = Null

KeyStatus(key, usedKeys, defaultLocaleKeys, otherLocaleKeys) ==
    [key   |-> key,
     inCode |-> key \in usedKeys,
     inEN  |-> key \in defaultLocaleKeys,
     inES  |-> "es" \in DOMAIN otherLocaleKeys /\ key \in otherLocaleKeys["es"]]

analyzeLocales(d, localesDirFound, usedKeys) ==
    IF ~localesDirFound THEN Null
    ELSE
    LET defaultLocaleData == loadLocale("en", d)
    IN  IF NotLoaded(defaultLocaleData) THEN Null
        ELSE
        LET availableLocales == {l \in {"es"} : loadLocale(l, d) # Null}
            otherLocaleKeys ==
                [l \in availableLocales |-> getKeys(loadLocale(l, d), <<>>)]
            defaultLocaleKeys == getKeys(defaultLocaleData, <<>>)
            allLocaleKeys ==
                defaultLocaleKeys
                    \cup UNION {otherLocaleKeys[l] : l \in availableLocales}
            allUniqueKeys == allLocaleKeys \cup usedKeys
            sorted == SortKeys(allUniqueKeys)
        IN  [t |-> "res",
             availableLocales |-> availableLocales,
             keyStatuses |->
                 [i \in 1..Len(sorted) |->
                     KeyStatus(sorted[i], usedKeys, defaultLocaleKeys,
                               otherLocaleKeys)]]

\* The filter of addMissingKeys.
IsMissing(s) == s.inCode /\ (~s.inEN \/ ~s.inES)

keysInCodeOnly(res) == SelectSeq(res.keyStatuses, IsMissing)

\* Mutant: the filter forgets the use in code.
IsUnusedIn_IgnoringCode(s, locale) == IF locale = "en" THEN s.inEN ELSE s.inES

\* The filter of deleteKeysFromLocale.
IsUnusedIn(s, locale) == (IF locale = "en" THEN s.inEN ELSE s.inES) /\ ~s.inCode

keysInLocaleOnly(res, locale) ==
    SelectSeq(res.keyStatuses, LAMBDA s : IsUnusedIn(s, locale))

-----------------------------------------------------------------------------
(* Inputs *)

MaxUsed == 2     \* at most this many distinct keys are used in the source
MaxEdits == 1    \* at most this many edits of the files from outside

KA == <<"a">>
KB == <<"b">>
KAB == <<"a", ".", "b">>

\* Keys the scan of the source tree can find.
KeyInputs == {KA, KB, KAB}

\* What the operator types at a translation prompt (after trim()).
InputTexts == {<<>>, <<"T">>}

One(k, v) == Put(EmptyMap, k, v)

TreeA == Obj(One(KA, Str(<<"1">>)))
TreeAB == Obj(Put(One(KA, Str(<<"1">>)), KB, Str(<<"2">>)))
TreeNested == Obj(One(KA, Obj(One(KB, Str(<<"x">>)))))
TreeFlat == Obj(One(KAB, Str(<<"x">>)))
TreeNullArr == Obj(Put(One(KA, Null), KB, Arr))

\* Contents a locale file can have when the program starts.
FileInputs ==
    {Absent, Bad} \cup
    {Json(v) : v \in {EmptyObj, TreeA, TreeAB, TreeNested, TreeFlat, TreeNullArr}}

-----------------------------------------------------------------------------
(* Mutation Operations *)

\* Mutant: no placeholder for an empty answer.
Translation_NoPlaceholder(defaultValue, key) == defaultValue

\* defaultValue || `[${status.key}]`
Translation(defaultValue, key) ==
    IF defaultValue # <<>> THEN defaultValue ELSE <<"[">> \o key \o <<"]">>

\* (await loadLocale(l, dir)) || {}, setNestedKey, writeFile
WriteKey(locale, d, key, value) ==
    LET loaded == loadLocale(locale, d)
        data == IF loaded # Null THEN loaded ELSE EmptyObj
    IN  writeFile(locale, d, setNestedKey(data, Split(key), value))

\* The loop over keysInLocaleOnly calling removeKey on the loaded data.
RECURSIVE RemoveAll(_, _)
RemoveAll(localeData, statuses) ==
    IF statuses = <<>> THEN localeData
    ELSE RemoveAll(removeKey(localeData, Split(Head(statuses).key)).obj,
                   Tail(statuses))

\* deleteKeysFromLocale once both confirmations are given.
DeleteWrite(locale, d, statuses) ==
    LET localeData == loadLocale(locale, d)
    IN  IF localeData = Null THEN d
        ELSE writeFile(locale, d, RemoveAll(localeData, statuses))

addUnchanged == <<dirExists, sourceKeys, results, exitCode, edits>>

\* addMissingKeys up to its confirmation (menu choice 2).
addMissingKeys(answer) ==
    /\ pc = "menu"
    /\ choice' = "2"
    /\ before' = disk
    /\ allBlank' = TRUE
    /\ idx' = 1
    /\ IF Len(keysInCodeOnly(results)) = 0
       THEN /\ answer = FALSE
            /\ proceed' = FALSE
            /\ pc' = "continue"
       ELSE /\ proceed' = answer
            /\ pc' = IF answer THEN "add_prompt" ELSE "continue"
    /\ UNCHANGED <<disk, confirmDelete, translation, tree, last>>
    /\ UNCHANGED addUnchanged

\* The prompt for the value of keysInCodeOnly[idx].
AddPrompt(defaultValue) ==
    /\ pc = "add_prompt"
    /\ translation' = Translation(defaultValue, keysInCodeOnly(results)[idx].key)
    /\ allBlank' = (allBlank /\ defaultValue = <<>>)
    /\ pc' = "add_en"
    /\ UNCHANGED <<disk, choice, proceed, confirmDelete, idx, before, tree, last>>
    /\ UNCHANGED addUnchanged

\* "Add to EN.json if missing"
AddEN ==
    /\ pc = "add_en"
    /\ LET status == keysInCodeOnly(results)[idx]
       IN  disk' = IF ~status.inEN
                   THEN WriteKey("en", disk, status.key, translation)
                   ELSE disk
    /\ pc' = "add_es"
    /\ UNCHANGED <<choice, proceed, confirmDelete, idx, translation, before,
                   allBlank, tree, last>>
    /\ UNCHANGED addUnchanged

\* "Add to ES.json if missing", then the next key or the end of the loop.
AddES ==
    /\ pc = "add_es"
    /\ LET status == keysInCodeOnly(results)[idx]
       IN  disk' = IF ~status.inES
                   THEN WriteKey("es", disk, status.key, translation)
                   ELSE disk
    /\ IF idx < Len(keysInCodeOnly(results))
       THEN idx' = idx + 1 /\ translation' = translation /\ pc' = "add_prompt"
       ELSE idx' = 1 /\ translation' = <<>> /\ pc' = "continue"
    /\ UNCHANGED <<choice, proceed, confirmDelete, before, allBlank, tree, last>>
    /\ UNCHANGED addUnchanged

\* Mutant: the second confirmation is asked but its answer is not checked.
deleteKeysFromLocale_OneConfirmation(locale, answer1, answer2) ==
    /\ pc = "menu"
    /\ choice' = IF locale = "en" THEN "3" ELSE "4"
    /\ before' = disk
    /\ LET statuses == keysInLocaleOnly(results, locale)
       IN  IF Len(statuses) = 0
           THEN /\ answer1 = FALSE /\ answer2 = FALSE
                /\ proceed' = FALSE
                /\ confirmDelete' = FALSE
                /\ disk' = disk
           ELSE /\ proceed' = answer1
                /\ confirmDelete' = (answer1 /\ answer2)
                /\ ~answer1 => ~answer2
                /\ disk' = IF answer1
                           THEN DeleteWrite(locale, disk, statuses)
                           ELSE disk
    /\ pc' = "continue"
    /\ UNCHANGED <<idx, translation, allBlank, tree, last>>
    /\ UNCHANGED addUnchanged

\* deleteKeysFromLocale (menu choices 3 and 4) with the answers to its two
\* confirmations; the second is asked only after a yes to the first.
deleteKeysFromLocale(locale, answer1, answer2) ==
    /\ pc = "menu"
    /\ choice' = IF locale = "en" THEN "3" ELSE "4"
    /\ before' = disk
    /\ LET statuses == keysInLocaleOnly(results, locale)
       IN  IF Len(statuses) = 0
           THEN /\ answer1 = FALSE /\ answer2 = FALSE
                /\ proceed' = FALSE
                /\ confirmDelete' = FALSE
                /\ disk' = disk
           ELSE /\ proceed' = answer1
                /\ confirmDelete' = (answer1 /\ answer2)
                /\ ~answer1 => ~answer2
                /\ disk' = IF answer1 /\ answer2
                           THEN DeleteWrite(locale, disk, statuses)
                           ELSE disk
    /\ pc' = "continue"
    /\ UNCHANGED <<idx, translation, allBlank, tree, last>>
    /\ UNCHANGED addUnchanged

-----------------------------------------------------------------------------
(* Interactive Session *)

menuUnchanged == <<dirExists, disk, sourceKeys, results, idx, translation,
                   edits, tree, last>>

\* The locals of a finished menu operation are gone.
NoOperation ==
    /\ choice' = "none"
    /\ proceed' = FALSE
    /\ confirmDelete' = FALSE
    /\ allBlank' = TRUE
    /\ before' = disk

opUnchanged == <<proceed, confirmDelete, allBlank>>

\* main(): analyzeLocales(), then process.exit(1) or the table and the menu.
main ==
    /\ pc = "main"
    /\ results' = analyzeLocales(disk, dirExists, sourceKeys)
    /\ IF results' = Null
       THEN /\ pc' = "done" /\ exitCode' = 1
            /\ UNCHANGED <<choice, before>>
       ELSE /\ pc' = "menu" /\ exitCode' = exitCode
            /\ choice' = "none" /\ before' = disk
    /\ UNCHANGED <<dirExists, disk, sourceKeys, proceed, confirmDelete,
                   idx, translation, allBlank, edits, tree, last>>

\* Choice 1, and any text that is no choice: nothing but output.
ShowOrInvalid(c) ==
    /\ pc = "menu"
    /\ c \in {"1", "other"}
    /\ choice' = c
    /\ before' = disk
    /\ pc' = "continue"
    /\ UNCHANGED exitCode
    /\ UNCHANGED opUnchanged
    /\ UNCHANGED menuUnchanged

\* Choice 5: rl.close(); await main(); return
ReAnalyze ==
    /\ pc = "menu"
    /\ choice' = "5"
    /\ before' = disk
    /\ pc' = "main"
    /\ UNCHANGED exitCode
    /\ UNCHANGED opUnchanged
    /\ UNCHANGED menuUnchanged

\* Choice 6: return from the menu: main() ends and so does the process.
Exit ==
    /\ pc = "menu"
    /\ choice' = "6"
    /\ before' = disk
    /\ pc' = "done"
    /\ exitCode' = 0
    /\ UNCHANGED opUnchanged
    /\ UNCHANGED menuUnchanged

\* "Return to main menu? (y/n)"
ReturnToMenu(continueMenu) ==
    /\ pc = "continue"
    /\ IF continueMenu
       THEN pc' = "menu" /\ exitCode' = exitCode /\ NoOperation
       ELSE /\ pc' = "done" /\ exitCode' = 0
            /\ UNCHANGED <<choice, before>>
            /\ UNCHANGED opUnchanged
    /\ UNCHANGED menuUnchanged

\* Someone removes or damages a locale file while the menu waits for input.
ExternalEdit(locale, file) ==
    /\ pc = "menu"
    /\ edits < MaxEdits
    /\ file \in {Absent, Bad}
    /\ disk[locale] # file
    /\ disk' = [disk EXCEPT ![locale] = file]
    /\ edits' = edits + 1
    /\ before' = disk'
    /\ UNCHANGED <<dirExists, sourceKeys, results, pc, exitCode, choice, proceed,
                   confirmDelete, idx, translation, allBlank, tree, last>>

Init ==
    /\ dirExists \in BOOLEAN
    /\ disk \in [Locales -> FileInputs]
    /\ ~dirExists => \A l \in Locales : disk[l] = Absent
    /\ sourceKeys \in {S \in SUBSET KeyInputs : Cardinality(S) <= MaxUsed}
    /\ results = Null
    /\ pc = "main"
    /\ exitCode = 0
    /\ choice = "none"
    /\ proceed = FALSE
    /\ confirmDelete = FALSE
    /\ idx = 1
    /\ translation = <<>>
    /\ before = disk
    /\ allBlank = TRUE
    /\ edits = 0
    /\ tree = EmptyObj
    /\ last = [op |-> "none", n |-> 0, before |-> tree, keyPath |-> <<>>,
               removed |-> FALSE]

Next ==
    \/ main
    \/ \E c \in {"1", "other"} : ShowOrInvalid(c)
    \/ \E answer \in BOOLEAN : addMissingKeys(answer)
    \/ \E defaultValue \in InputTexts : AddPrompt(defaultValue)
    \/ AddEN
    \/ AddES
    \/ \E locale \in Locales, answer1, answer2 \in BOOLEAN :
           deleteKeysFromLocale(locale, answer1, answer2)
    \/ ReAnalyze
    \/ Exit
    \/ \E continueMenu \in BOOLEAN : ReturnToMenu(continueMenu)
    \/ \E locale \in Locales, file \in {Absent, Bad} : ExternalEdit(locale, file)

Spec == Init /\ [][Next]_vars

-----------------------------------------------------------------------------
(* The Key Extractor on its own: the helpers applied to bounded inputs *)

MaxOps == 3      \* helper calls applied in a row to one input object

KC == <<"c">>

\* Keys whose split gives the paths the helpers are called with.
PathKeys ==
    {KA, KB, KAB,
     <<"a", ".", "b", ".", "c">>, <<"a", ".", "c">>, <<"b", ".", "a">>,
     <<".", "a">>}

PathInputs == {Split(k) : k \in PathKeys}

TreeDeep == Obj(One(KA, Obj(One(KB, Obj(One(KC, Str(<<"x">>)))))))
TreeEmptyChild == Obj(Put(One(KA, EmptyObj), KB, Str(<<"2">>)))
TreeSiblings ==
    Obj(Put(One(KA, Obj(Put(One(KB, Str(<<"x">>)), KC, Str(<<"y">>)))),
            KB, Str(<<"2">>)))

TreeInputs ==
    {EmptyObj, TreeA, TreeAB, TreeNested, TreeFlat, TreeNullArr, TreeDeep,
     TreeEmptyChild, TreeSiblings}

\* The flattened keys of getKeys, each with the leaf it stands for.
RECURSIVE Entries(_, _)
Entries(obj, prefix) ==
    IF ~IsPlainObject(obj) THEN {}
    ELSE UNION { LET fullKey == FullKey(prefix, key)
                 IN  IF IsPlainObject(obj.m[key])
                     THEN Entries(obj.m[key], fullKey)
                     ELSE {<<fullKey, obj.m[key]>>}
                 : key \in DOMAIN obj.m }

\* Every leaf below v is a string.
RECURSIVE StringLeaves(_)
StringLeaves(v) ==
    IF IsPlainObject(v)
    THEN \A key \in DOMAIN v.m : StringLeaves(v.m[key])
    ELSE v.t = "str"

Orders(S) ==
    {o \in [1..Cardinality(S) -> S] :
        \A i, j \in 1..Cardinality(S) : i # j => o[i] # o[j]}

\* setNestedKey(acc, key.split("."), value) for the keys of order in turn,
\* each with the leaf the original object holds for it.
RECURSIVE Unflatten(_, _, _)
Unflatten(acc, order, original) ==
    IF order = <<>> THEN acc
    ELSE LET key == Head(order)
             leaf == (CHOOSE e \in Entries(original, <<>>) : e[1] = key)[2]
         IN  Unflatten(setNestedKey(acc, Split(key), leaf.s), Tail(order),
                       original)

ApplySet(keyPath, value) ==
    /\ last.n < MaxOps
    /\ tree' = setNestedKey(tree, keyPath, value)
    /\ last' = [op |-> "set", n |-> last.n + 1, before |-> tree,
                keyPath |-> keyPath, removed |-> FALSE]
    /\ UNCHANGED progVars

ApplyRemove(keyPath) ==
    /\ last.n < MaxOps
    /\ LET r == removeKey(tree, keyPath)
       IN  /\ tree' = r.obj
           /\ last' = [op |-> "remove", n |-> last.n + 1, before |-> tree,
                       keyPath |-> keyPath, removed |-> r.removed]
    /\ UNCHANGED progVars

ApplyRoundTrip(order) ==
    /\ last.n < MaxOps
    /\ StringLeaves(tree)
    /\ tree' = Unflatten(EmptyObj, order, tree)
    /\ last' = [op |-> "roundtrip", n |-> last.n + 1, before |-> tree,
                keyPath |-> <<>>, removed |-> FALSE]
    /\ UNCHANGED progVars

(* The runtime lookup: t of useTranslate *)

\* A number; the only one the lookup can meet is the length of an array.
Num(n) == [t |-> "num", n |-> n]

Length == <<"l", "e", "n", "g", "t", "h">>

\* The value is truthy: not null, not "", not 0.
Truthy(value) ==
    CASE value.t = "null" -> FALSE
      [] value.t = "str" -> value.s # <<>>
      [] value.t = "num" -> value.n # 0
      [] OTHER -> TRUE

\* typeof value === "object": objects, arrays and null.
TypeofObject(value) == value.t \in {"obj", "arr", "null"}

\* Mutant: the guard without `value &&`, which lets null through.
CanDescend_TypeofOnly(value) == TypeofObject(value)

\* value && typeof value === "object"
CanDescend(value) == Truthy(value) /\ TypeofObject(value)

\* k in value, for a value that is an object or an array. The arrays of the
\* inputs have no elements, so that "length" is their only property.
In(k, value) ==
    IF value.t = "obj" THEN k \in DOMAIN value.m ELSE k = Length

\* value[k], for a k that is in value.
Member(value, k) ==
    IF value.t = "obj" THEN value.m[k] ELSE Num(0)

\* The loop over keys and the final return. `k in value` throws a TypeError
\* when value is not an object.
RECURSIVE Lookup(_, _, _)
Lookup(value, keys, key) ==
    IF keys = <<>>
    THEN [threw |-> FALSE, value |-> IF value.t = "str" THEN value.s ELSE key]
    ELSE LET k == Head(keys)
         IN  IF ~CanDescend(value)
             THEN [threw |-> FALSE, value |-> key]
             ELSE IF value.t \notin {"obj", "arr"}
             THEN [threw |-> TRUE, value |-> <<>>]
             ELSE IF In(k, value)
             THEN Lookup(Member(value, k), Tail(keys), key)
             ELSE [threw |-> FALSE, value |-> key]

\* t(key) with the dictionary of the context.
t(dictionary, key) == Lookup(dictionary, Split(key), key)

\* Keys t is called with.
TranslateKeys == PathKeys \cup {<<>>, KB \o <<Dot>> \o Length}

ApplyTranslate(key) ==
    /\ last.n < MaxOps
    /\ LET r == t(tree, key)
       IN  last' = [op |-> "t", n |-> last.n + 1, before |-> tree,
                    keyPath |-> Split(key), removed |-> FALSE,
                    key |-> key, threw |-> r.threw, result |-> r.value]
    /\ UNCHANGED tree
    /\ UNCHANGED progVars

InitTree ==
    /\ tree \in TreeInputs
    /\ last = [op |-> "none", n |-> 0, before |-> tree, keyPath |-> <<>>,
               removed |-> FALSE]
    /\ dirExists = FALSE
    /\ disk = [l \in Locales |-> Absent]
    /\ sourceKeys = {}
    /\ results = Null
    /\ pc = "done"
    /\ exitCode = 0
    /\ choice = "none"
    /\ proceed = FALSE
    /\ confirmDelete = FALSE
    /\ idx = 1
    /\ translation = <<>>
    /\ before = disk
    /\ allBlank = TRUE
    /\ edits = 0

NextTree ==
    \/ \E keyPath \in PathInputs, value \in InputTexts \ {<<>>} :
           ApplySet(keyPath, value)
    \/ \E keyPath \in PathInputs : ApplyRemove(keyPath)
    \/ \E order \in Orders(getKeys(tree, <<>>)) : ApplyRoundTrip(order)
    \/ \E key \in TranslateKeys : ApplyTranslate(key)

SpecTree == InitTree /\ [][NextTree]_vars

-----------------------------------------------------------------------------
(* Properties of the Key Extractor, checked under SpecTree *)

\* Every property name below v is non-empty and holds no ".".
RECURSIVE WellNamed(_)
WellNamed(v) ==
    IsPlainObject(v) =>
        \A key \in DOMAIN v.m :
            /\ key # <<>>
            /\ \A i \in 1..Len(key) : key[i] # Dot
            /\ WellNamed(v.m[key])

\* keyPath leads to a property of obj, through plain objects only.
RECURSIVE HasPath(_, _)
HasPath(obj, keyPath) ==
    /\ IsPlainObject(obj)
    /\ keyPath[1] \in DOMAIN obj.m
    /\ Len(keyPath) = 1 \/ HasPath(obj.m[keyPath[1]], Tail(keyPath))

\* The value keyPath leads to (HasPath holds).
RECURSIVE NodeAt(_, _)
NodeAt(obj, keyPath) ==
    IF Len(keyPath) = 1 THEN obj.m[keyPath[1]]
    ELSE NodeAt(obj.m[keyPath[1]], Tail(keyPath))

\* All paths to properties of obj, at any depth.
RECURSIVE Nodes(_)
Nodes(obj) ==
    IF ~IsPlainObject(obj) THEN {}
    ELSE UNION { {<<key>>} \cup {<<key>> \o q : q \in Nodes(obj.m[key])}
                 : key \in DOMAIN obj.m }

IsPrefix(p, q) == Len(p) <= Len(q) /\ SubSeq(q, 1, Len(p)) = p

\* C6 as stated: for any object-only dictionary with string leaves, rebuilding
\* it from its flattened keys with setNestedKey(key.split("."), value) gives a
\* tree with the same flattened keys and the same leaf values.
C6_RoundTripAnyNames ==
    last.op = "roundtrip" =>
        Entries(tree, <<>>) = Entries(last.before, <<>>)

\* What does hold of C6: the round trip keeps the flattened keys and their
\* leaf values for every object-only dictionary with string leaves whose
\* property names are non-empty and hold no ".".
C6_RoundTripWellNamed ==
    (last.op = "roundtrip" /\ WellNamed(last.before)) =>
        Entries(tree, <<>>) = Entries(last.before, <<>>)

\* A round trip of a well-named tree with a nested leaf and several leaves.
C6_WellNamedWitness ==
    /\ last.op = "roundtrip"
    /\ WellNamed(last.before)
    /\ Cardinality(getKeys(last.before, <<>>)) >= 3
    /\ \E k \in getKeys(last.before, <<>>) : Len(Split(k)) >= 2
    /\ Entries(tree, <<>>) = Entries(last.before, <<>>)

\* The first segment of keyPath that removeKey is to delete from its parent:
\* the topmost ancestor from which only the removed leaf hangs, or the leaf.
PruneStart(obj, keyPath) ==
    LET n == Len(keyPath)
        OnlyChild(j) ==
            Cardinality(DOMAIN NodeAt(obj, SubSeq(keyPath, 1, j)).m) = 1
    IN  CHOOSE i \in 1..n :
            /\ \A j \in i..(n - 1) : OnlyChild(j)
            /\ i = 1 \/ ~OnlyChild(i - 1)

\* q names the same thing in both objects: a plain object, or the same leaf.
SameNode(x, y, q) ==
    \/ IsPlainObject(NodeAt(x, q)) /\ IsPlainObject(NodeAt(y, q))
    \/ NodeAt(x, q) = NodeAt(y, q)

\* C7: removeKey of a path that is present returns true, deletes the leaf and
\* every ancestor on the path left with zero keys, up to the root object, and
\* keeps every other property, at every depth, as it was.
C7_PruneEmptyAncestors ==
    (last.op = "remove" /\ HasPath(last.before, last.keyPath)) =>
        LET gone == SubSeq(last.keyPath, 1,
                           PruneStart(last.before, last.keyPath))
        IN  /\ last.removed
            /\ Nodes(tree) = {q \in Nodes(last.before) : ~IsPrefix(gone, q)}
            /\ \A q \in Nodes(tree) : SameNode(tree, last.before, q)

\* Removing a.b.c from {a: {b: {c: "x"}}} has left {}.
C7_Witness ==
    /\ last.op = "remove"
    /\ last.before = TreeDeep
    /\ last.keyPath = <<KA, KB, KC>>
    /\ last.removed
    /\ tree = EmptyObj

\* C8: removeKey of a path that is absent (also one that runs through a
\* leaf, null or an array) returns false and leaves the object as it was; after
\* a removal that returned true, removing the same path again returns false
\* and changes nothing.
C8_AbsentIsNoOp ==
    /\ (last.op = "remove" /\ ~HasPath(last.before, last.keyPath)) =>
           ~last.removed /\ tree = last.before
    /\ (last.op = "remove" /\ last.removed) =>
           removeKey(tree, last.keyPath) = [removed |-> FALSE, obj |-> tree]

\* An absent path that runs through an array was asked to be removed.
C8_Witness ==
    /\ last.op = "remove"
    /\ last.before = TreeNullArr
    /\ last.keyPath = <<KB, KA>>
    /\ ~last.removed
    /\ tree = last.before

-----------------------------------------------------------------------------
(* Properties of the program, checked under Spec *)

TreeAPlusB ==
    Obj(Put(One(KA, Str(<<"1">>)), KB, Str(<<"[", "b", "]">>)))
TreeOnlyB == Obj(One(KB, Str(<<"[", "b", "]">>)))
TreeBothPlaceholders ==
    Obj(Put(One(KA, Str(<<"[", "a", "]">>)), KB, Str(<<"[", "b", "]">>)))

\* The add-missing scenario: a confirmed run, every prompt answered with
\* nothing, on the report of default {"a":"1"}, secondary {} and used {a, b}.
AddScenarioDone ==
    /\ pc = "continue" /\ choice = "2" /\ proceed /\ allBlank
    /\ before = [en |-> Json(TreeA), es |-> Json(EmptyObj)]
    /\ sourceKeys = {KA, KB}
    /\ results = analyzeLocales(before, dirExists, sourceKeys)

\* C1 as stated: the scenario leaves the default locale {"a":"1","b":"[b]"}
\* and the secondary locale {"b":"[b]"}.
C1_ScenarioAsStated ==
    AddScenarioDone =>
        disk = [en |-> Json(TreeAPlusB), es |-> Json(TreeOnlyB)]

\* C1 amended: the scenario leaves the default locale {"a":"1","b":"[b]"} and
\* the secondary locale {"a":"[a]","b":"[b]"}: a is used in code and the
\* secondary locale lacks it, so a is a missing key too, written with its
\* placeholder into the secondary locale only.
C1_Scenario ==
    AddScenarioDone =>
        disk = [en |-> Json(TreeAPlusB), es |-> Json(TreeBothPlaceholders)]

\* The scenario has run to its end.
C1_Witness ==
    /\ AddScenarioDone
    /\ disk[en_] = Json(TreeAPlusB)
    /\ disk[es_] = Json(TreeBothPlaceholders)

\* C2: the files differ from what they were when the operation began only if
\* every confirmation the operation asks for was answered yes: both for
\* deleteKeysFromLocale, the one for addMissingKeys.
C2_ChangesOnlyWhenConfirmed ==
    /\ (choice \in {"3", "4"} /\ ~(proceed /\ confirmDelete)) => disk = before
    /\ (choice = "2" /\ ~proceed) => disk = before
    /\ pc \in {"add_prompt", "add_en", "add_es"} => choice = "2" /\ proceed

\* A delete with keys to delete was declined at the second confirmation.
C2_Witness ==
    /\ pc = "continue" /\ choice = "3"
    /\ proceed /\ ~confirmDelete
    /\ Len(keysInLocaleOnly(results, "en")) > 0
    /\ disk = before

ChoiceFor(locale) == IF locale = "en" THEN "3" ELSE "4"

\* A delete on locale, confirmed twice, on a report computed from the files
\* as they were when the operation began, has ended.
ConfirmedDeleteDone(locale) ==
    /\ pc = "continue" /\ choice = ChoiceFor(locale)
    /\ proceed /\ confirmDelete
    /\ results = analyzeLocales(before, dirExists, sourceKeys)

LeavesOfFile(file) ==
    IF file.k = "json" THEN Entries(file.v, <<>>) ELSE {}

UsedLeaves(file) == {e \in LeavesOfFile(file) : e[1] \in sourceKeys}

\* C3 as stated: after such a delete the file of the locale holds exactly the
\* leaves it held that are used in code, with their values.
C3_DeleteAnyNames ==
    \A locale \in Locales :
        ConfirmedDeleteDone(locale) =>
            LeavesOfFile(disk[locale]) = UsedLeaves(before[locale])

\* What does hold of C3: the same, for a locale file whose property names are
\* non-empty and hold no ".".
C3_DeleteWellNamed ==
    \A locale \in Locales :
        (ConfirmedDeleteDone(locale) /\ WellNamed(before[locale].v)) =>
            LeavesOfFile(disk[locale]) = UsedLeaves(before[locale])

\* The delete-unused scenario: {"a":"1","b":"2"} with used {a} is now {"a":"1"}.
C3_WellNamedWitness ==
    /\ ConfirmedDeleteDone("en")
    /\ before[en_] = Json(TreeAB)
    /\ sourceKeys = {KA}
    /\ disk[en_] = Json(TreeA)

\* C4: a secondary locale that was not loaded by the analysis makes no key
\* missing (a key is missing only if used in code and absent from a loaded
\* locale) and its file is not created or written by add-missing.
C4_UnloadedLocaleIgnored ==
    (results # Null /\ es_ \notin results.availableLocales) =>
        /\ \A i \in 1..Len(results.keyStatuses) :
               IsMissing(results.keyStatuses[i]) =>
                   ~results.keyStatuses[i].inEN
        /\ choice = "2" => disk[es_] = before[es_]

\* C5: with no edit from outside, the report a menu operation is about to work
\* on is the report of the files as they are.
C5_ReportIsCurrent ==
    (pc = "menu" /\ edits = 0) =>
        results = analyzeLocales(disk, dirExists, sourceKeys)

KeysOfFile(file) ==
    IF file.k = "json" THEN getKeys(file.v, <<>>) ELSE {}

\* C9: the report analyzeLocales returns has exactly one KeyStatus for each key
\* of the union of the default-locale keys, the secondary-locale keys and the
\* used keys, with inCode, inEN and inES the membership of the key in the used
\* keys, the default-locale keys and the secondary-locale keys.
C9_StatusClassification ==
    [][(pc = "main" /\ pc' = "menu") =>
          LET ks == results'.keyStatuses
              universe == KeysOfFile(disk[en_]) \cup KeysOfFile(disk[es_])
                              \cup sourceKeys
          IN  /\ {ks[i].key : i \in 1..Len(ks)} = universe
              /\ Len(ks) = Cardinality(universe)
              /\ \A i \in 1..Len(ks) :
                     /\ ks[i].inCode = (ks[i].key \in sourceKeys)
                     /\ ks[i].inEN = (ks[i].key \in KeysOfFile(disk[en_]))
                     /\ ks[i].inES = (ks[i].key \in KeysOfFile(disk[es_]))
      ]_vars

\* The classification scenario with a, b, a.b for greeting, farewell, welcome:
\* a is T/T/T, a.b is T/F/F, b is F/T/F.
C9_Witness ==
    /\ pc = "menu" /\ edits = 0
    /\ disk = [en |-> Json(TreeAB), es |-> Json(TreeA)]
    /\ sourceKeys = {KA, KAB}
    /\ results.keyStatuses =
           << [key |-> KA, inCode |-> TRUE, inEN |-> TRUE, inES |-> TRUE],
              [key |-> KAB, inCode |-> TRUE, inEN |-> FALSE, inES |-> FALSE],
              [key |-> KB, inCode |-> FALSE, inEN |-> TRUE, inES |-> FALSE] >>

\* The locales directory is not found or the default locale does not load.
Fatal == ~dirExists \/ disk[en_].k # "json"

\* C10: an analysis pass under a fatal condition ends the process with status
\* 1, without the menu and with the files as they were; a process that ends
\* in any other way ends with status 0.
C10_FatalConditions ==
    [][/\ (pc = "main" /\ Fatal) =>
              pc' = "done" /\ exitCode' = 1 /\ disk' = disk
       /\ (pc' = "done" /\ ~(pc = "main" /\ Fatal)) => exitCode' = 0
      ]_vars

\* A re-analysis (menu choice 5) met a fatal condition and ended the process.
C10_Witness ==
    /\ pc = "done" /\ exitCode = 1
    /\ choice = "5"
    /\ dirExists /\ disk[en_].k # "json"

\* ---------------------------------------------------------------------------
\* Unparsable files
\* ---------------------------------------------------------------------------

\* C11: loadLocale gives a file that exists but does not parse an outcome
\* other than the outcome of a missing file, and add-missing does not replace
\* an unparsable file as it would create a missing one.
C11_ParseFailureIsNotAbsence ==
    \A l \in Locales :
        /\ disk[l] = Bad =>
               loadLocale(l, disk) # loadLocale(l, [disk EXCEPT ![l] = Absent])
        /\ (choice = "2" /\ before[l] = Bad) => disk[l] = Bad

\* ---------------------------------------------------------------------------
\* Untargeted locale files
\* ---------------------------------------------------------------------------

OtherLocale(locale) == IF locale = en_ THEN es_ ELSE en_

\* The keys the add-missing run works on: the keys of keysInCodeOnly.
MissingKeys(res) ==
    IF res = Null THEN {}
    ELSE {keysInCodeOnly(res)[i].key : i \in 1..Len(keysInCodeOnly(res))}

\* The report the operation works on is the report of the files it started
\* from.
ReportOfStart == results = analyzeLocales(before, dirExists, sourceKeys)

\* C12: a delete on one locale leaves the file of the other locale as it was
\* at the start of the operation, and add-missing leaves a file that already
\* holds every missing key as it was at the start of the operation.
C12_UntargetedUntouched ==
    \A l \in Locales :
        /\ choice = ChoiceFor(l) => disk[OtherLocale(l)] = before[OtherLocale(l)]
        /\ (choice = "2" /\ MissingKeys(results) \subseteq KeysOfFile(before[l]))
               => disk[l] = before[l]

\* The same with a report that is current when the operation starts.
C12_UntargetedWithCurrentReport ==
    \A l \in Locales :
        /\ choice = ChoiceFor(l) => disk[OtherLocale(l)] = before[OtherLocale(l)]
        /\ (choice = "2" /\ ReportOfStart
              /\ MissingKeys(results) \subseteq KeysOfFile(before[l]))
               => disk[l] = before[l]

\* An add-missing run on a current report has written one locale and had a
\* file that lacked none of the missing keys to leave alone.
C12_CurrentReportWitness ==
    /\ pc = "continue" /\ choice = "2" /\ proceed
    /\ ReportOfStart
    /\ MissingKeys(results) # {}
    /\ disk[es_] # before[es_]
    /\ MissingKeys(results) \subseteq KeysOfFile(before[en_])

\* ---------------------------------------------------------------------------
\* Runtime lookup
\* ---------------------------------------------------------------------------

\* C13: t returns the string stored at the path of the key when every segment
\* of the key is there and the value it leads to is a string; in every other
\* case it returns the key; it never throws.
C13_FallbackLookup ==
    last.op = "t" =>
        LET keys == Split(last.key)
            found == HasPath(last.before, keys)
                     /\ NodeAt(last.before, keys).t = "str"
        IN  /\ ~last.threw
            /\ last.result = IF found THEN NodeAt(last.before, keys).s
                             ELSE last.key

\* A lookup of a nested key that gave the stored string, not the key.
C13_Witness ==
    /\ last.op = "t"
    /\ Len(Split(last.key)) >= 2
    /\ HasPath(last.before, Split(last.key))
    /\ ~last.threw
    /\ last.result = NodeAt(last.before, Split(last.key)).s
    /\ last.result # last.key

\* ---------------------------------------------------------------------------
\* The add-missing run, write by write
\* ---------------------------------------------------------------------------

\* A confirmed add-missing run is under way or has just ended.
AddRunning ==
    /\ choice = "2" /\ proceed
    /\ pc \in {"add_prompt", "add_en", "add_es", "continue"}

\* The report says the locale lacks the key of the status.
Lacks(s, locale) == IF locale = en_ THEN ~s.inEN ELSE ~s.inES

\* The run is past the write of the i-th missing key to the locale.
WriteDone(i, locale) ==
    \/ pc = "continue"
    \/ i < idx
    \/ i = idx /\ pc = "add_es" /\ locale = en_

\* The run has not come to the i-th missing key yet.
NotYetProcessed(i) ==
    /\ pc # "continue"
    /\ i > idx \/ (i = idx /\ pc = "add_prompt")

LeafOf(file, key) == {e \in LeavesOfFile(file) : e[1] = key}

\* One key is the other followed by "." and more.
DotPrefix(p, q) == IsPrefix(p \o <<Dot>>, q)

\* No key used in code or held by a locale file at the start of the operation
\* is a dot-prefix of another.
NoDotPrefixes ==
    LET keys == sourceKeys \cup KeysOfFile(before[en_])
                           \cup KeysOfFile(before[es_])
    IN  \A p, q \in keys : ~DotPrefix(p, q)

\* C14: at every point of a confirmed add-missing run, every missing key whose
\* write to a locale has completed is a key of that locale's file, and the
\* leaf of every missing key the run has not come to is, in both files, what
\* it was when the run began.
C14_PartialProgress ==
    AddRunning =>
        \A i \in 1..Len(keysInCodeOnly(results)), l \in Locales :
            LET s == keysInCodeOnly(results)[i]
            IN  /\ (WriteDone(i, l) /\ Lacks(s, l))
                       => s.key \in KeysOfFile(disk[l])
                /\ NotYetProcessed(i)
                       => LeafOf(disk[l], s.key) = LeafOf(before[l], s.key)

\* The same for runs in which no key is a dot-prefix of another.
C14_PartialProgressNoDotPrefixes ==
    (AddRunning /\ NoDotPrefixes) =>
        \A i \in 1..Len(keysInCodeOnly(results)), l \in Locales :
            LET s == keysInCodeOnly(results)[i]
            IN  /\ (WriteDone(i, l) /\ Lacks(s, l))
                       => s.key \in KeysOfFile(disk[l])
                /\ NotYetProcessed(i)
                       => LeafOf(disk[l], s.key) = LeafOf(before[l], s.key)

\* A run between two writes: the first of two missing keys is written to both
\* files, the second to none.
C14_NoDotPrefixesWitness ==
    /\ AddRunning /\ NoDotPrefixes
    /\ Len(keysInCodeOnly(results)) = 2
    /\ idx = 2 /\ pc = "add_prompt"
    /\ \A l \in Locales :
           /\ keysInCodeOnly(results)[1].key \in KeysOfFile(disk[l])
           /\ keysInCodeOnly(results)[1].key \notin KeysOfFile(before[l])
           /\ keysInCodeOnly(results)[2].key \notin KeysOfFile(disk[l])

\* ---------------------------------------------------------------------------
\* What add-missing leaves behind
\* ---------------------------------------------------------------------------

\* A confirmed add-missing run on a report of the files it started from has
\* ended.
ConfirmedAddDone ==
    /\ pc = "continue" /\ choice = "2" /\ proceed
    /\ ReportOfStart

\* C15: after such a run a new analysis reports no missing key, every key used
\* in code is a leaf of both locale files, and every leaf a locale file held
\* before the run is still there with its value.
C15_AddConverges ==
    ConfirmedAddDone =>
        /\ MissingKeys(analyzeLocales(disk, dirExists, sourceKeys)) = {}
        /\ \A l \in Locales :
               /\ sourceKeys \subseteq KeysOfFile(disk[l])
               /\ LeavesOfFile(before[l]) \subseteq LeavesOfFile(disk[l])

\* The same for runs in which no key is a dot-prefix of another.
C15_AddConvergesNoDotPrefixes ==
    (ConfirmedAddDone /\ NoDotPrefixes) =>
        /\ MissingKeys(analyzeLocales(disk, dirExists, sourceKeys)) = {}
        /\ \A l \in Locales :
               /\ sourceKeys \subseteq KeysOfFile(disk[l])
               /\ LeavesOfFile(before[l]) \subseteq LeavesOfFile(disk[l])

\* A run that added b to a file that held a, and to an empty file.
C15_NoDotPrefixesWitness ==
    /\ ConfirmedAddDone /\ NoDotPrefixes
    /\ sourceKeys = {KB}
    /\ before = [en |-> Json(TreeA), es |-> Json(EmptyObj)]
    /\ KeysOfFile(disk[en_]) = {KA, KB}
    /\ KeysOfFile(disk[es_]) = {KB}

====
